---- MODULE Spec2Model ----
(***************************************************************************)
(* Plan gists of pkg/sql/opt/exec/explain/plan_gist_factory.go: the        *)
(* encoding writer (buffer + FNV hash), the encode facade, and the decoder *)
(* DecodePlanGistToPlan with its operand stack and its recover handler.    *)
(*                                                                         *)
(* Bytes are integers 0..255, a byte slice is a sequence of bytes, a       *)
(* tree.Name is the sequence of its bytes and a base64 string is the       *)
(* sequence of its symbols (0..63, and 64 for the padding '=').            *)
(***************************************************************************)
EXTENDS Integers, Sequences, FiniteSets, TLC

----------------------------------------------------------------------------
(* Bounds of the model.                                                    *)

\* Writer calls made on each factory of the twin encode runs.
MaxCalls == 3
\* Construction calls of one encoded plan.
MaxOps == 4
\* Chunks (single bytes or whole records) an arbitrary decode input is made of.
MaxChunks == 3
\* Descriptor ids given to one UpdateDescriptorJobIDs call.
MaxDescs == 3
\* Chunks of the input that two interleaved decodes are given.
MaxIsoChunks == 2

----------------------------------------------------------------------------
(* Program constants.                                                      *)

version == 1
numOperators == 57

\* The operator registry (explain's generated execOperator enumeration).
unknownOp == 0
scanOp == 1
hashJoinOp == 9
sortOp == 17
lookupJoinOp == 20
errorIfRowsOp == 44

MaxVarintLen64 == 10

Inst == {1, 2}

----------------------------------------------------------------------------
(* Sequences of bytes.                                                     *)

RECURSIVE Pow2(_)
Pow2(n) == IF n = 0 THEN 1 ELSE 2 * Pow2(n - 1)

RECURSIVE Concat(_)
Concat(ss) == IF ss = <<>> THEN <<>> ELSE Head(ss) \o Concat(Tail(ss))

Drop(sq, n) == SubSeq(sq, n + 1, Len(sq))

----------------------------------------------------------------------------
(* encoding/binary varints.                                                *)

\* binary.PutUvarint: seven bits per byte, least significant group first,
\* the high bit set on every byte but the last.
RECURSIVE PutUvarint(_)
PutUvarint(ux) ==
    IF ux >= 128 THEN <<(ux % 128) + 128>> \o PutUvarint(ux \div 128)
    ELSE <<ux>>

\* binary.PutVarint: zig-zag, then PutUvarint.
PutVarint(x) == PutUvarint(IF x < 0 THEN (-2 * x) - 1 ELSE 2 * x)

\* Every unsigned value of 2^28 and more is kept as this one value: the code
\* only compares decoded integers with the version and with catalog ids,
\* all far below it.
Huge == Pow2(30)

UOr(x, b, sh) ==
    IF b = 0 THEN x
    ELSE IF sh >= 28 \/ x >= Huge THEN Huge
    ELSE x + b * Pow2(sh)

\* The zig-zag decode of binary.ReadVarint.
UnZigZag(ux) == IF ux % 2 = 1 THEN -((ux \div 2) + 1) ELSE ux \div 2

----------------------------------------------------------------------------
(* encoding/base64, StdEncoding (padded).                                  *)

Pad == 64

RECURSIVE EncodeToString(_)
EncodeToString(b) ==
    IF Len(b) = 0 THEN <<>>
    ELSE IF Len(b) = 1 THEN
        <<b[1] \div 4, (b[1] % 4) * 16, Pad, Pad>>
    ELSE IF Len(b) = 2 THEN
        <<b[1] \div 4, (b[1] % 4) * 16 + (b[2] \div 16), (b[2] % 16) * 4, Pad>>
    ELSE
        <<b[1] \div 4, (b[1] % 4) * 16 + (b[2] \div 16),
          (b[2] % 16) * 4 + (b[3] \div 64), b[3] % 64>>
        \o EncodeToString(Drop(b, 3))

\* One quantum of four symbols; ok is FALSE on a CorruptInputError.
DecodeQuantum(q, last) ==
    LET b1 == q[1] * 4 + (q[2] \div 16)
        b2 == (q[2] % 16) * 16 + (q[3] \div 4)
        b3 == (q[3] % 4) * 64 + q[4]
    IN  IF q[1] = Pad \/ q[2] = Pad THEN [ok |-> FALSE, bytes |-> <<>>]
        ELSE IF q[3] = Pad THEN
            [ok |-> last /\ q[4] = Pad, bytes |-> <<b1>>]
        ELSE IF q[4] = Pad THEN [ok |-> last, bytes |-> <<b1, b2>>]
        ELSE [ok |-> TRUE, bytes |-> <<b1, b2, b3>>]

RECURSIVE DecodeString(_)
DecodeString(str) ==
    IF Len(str) = 0 THEN [ok |-> TRUE, bytes |-> <<>>]
    ELSE IF Len(str) < 4 THEN [ok |-> FALSE, bytes |-> <<>>]
    ELSE LET q == DecodeQuantum(SubSeq(str, 1, 4), Len(str) = 4)
             rest == DecodeString(Drop(str, 4))
         IN  IF q.ok /\ rest.ok
             THEN [ok |-> TRUE, bytes |-> q.bytes \o rest.bytes]
             ELSE [ok |-> FALSE, bytes |-> <<>>]

----------------------------------------------------------------------------
(* util.FNV64: a 64-bit accumulator, kept as eight bytes, least            *)
(* significant first.                                                      *)

\* 14695981039346656037 = 0xcbf29ce484222325
fnvBase == <<37, 35, 34, 132, 228, 156, 242, 203>>
\* 1099511628211 = 2^40 + 0x1b3: the low part of the prime
fnvPrimeLow == 435

RECURSIVE Xor(_, _, _)
Xor(a, b, bits) ==
    IF bits = 0 THEN 0
    ELSE ((a + b) % 2) + 2 * Xor(a \div 2, b \div 2, bits - 1)

RECURSIVE Carry(_, _, _)
Carry(cols, i, c) ==
    IF i > 8 THEN <<>>
    ELSE <<(cols[i] + c) % 256>> \o Carry(cols, i + 1, (cols[i] + c) \div 256)

\* sum * fnvPrime modulo 2^64
MulPrime(sum) ==
    Carry([i \in 1..8 |->
              sum[i] * fnvPrimeLow + (IF i > 5 THEN sum[i - 5] ELSE 0)], 1, 0)

\* FNV64.Add(c), c a byte: sum *= fnvPrime; sum ^= c
FNVAdd(sum, c) ==
    LET m == MulPrime(sum) IN [m EXCEPT ![1] = Xor(m[1], c, 8)]

----------------------------------------------------------------------------
(* The catalog collaborator (cat.Catalog), as seen through                 *)
(* ResolveDataSourceByID, Table.IndexCount and Table.Index.                *)
(*   tables   ids that resolve to a table                                  *)
(*   views    ids that resolve to a data source that is not a table        *)
(*   raises   ids on which the collaborator panics with a non-error value  *)
(*   indexes  the <<table id, index id>> pairs of the tables' indexes      *)
(* every other id fails to resolve (an error is returned).                 *)

NoCatalog == [tables |-> {}, views |-> {}, raises |-> {}, indexes |-> {}]

\* A decoded reference (cat.Table, cat.Index) or scalar: nil, or a value.
Nil == [nil |-> TRUE, v |-> 0]
Val(v) == [nil |-> FALSE, v |-> v]

----------------------------------------------------------------------------
(* PlanGistFactory.  buf/off are the bytes.Buffer (contents and read       *)
(* offset); hashIn records the bytes handed to hash.Add so far.            *)

ZeroFactory ==
    [buf |-> <<>>, off |-> 0, hash |-> [i \in 1..8 |-> 0], hashIn |-> <<>>,
     nodeStack |-> <<>>, catalog |-> NoCatalog]

\* f.buffer.Bytes(): the unread part
BufferBytes(F) == Drop(F.buf, F.off)

BufferWrite(F, data) == [F EXCEPT !.buf = @ \o data]

BufferReset(F) == [F EXCEPT !.buf = <<>>, !.off = 0]

RECURSIVE HashAll(_, _)
HashAll(sum, data) ==
    IF data = <<>> THEN sum ELSE HashAll(FNVAdd(sum, Head(data)), Tail(data))

writeHash(F, data) ==
    [F EXCEPT !.hash = HashAll(@, data), !.hashIn = @ \o data]

Write(F, data) == writeHash(BufferWrite(F, data), data)

encodeInt(F, i) == Write(F, PutVarint(i))

\* encodeByte writing to the buffer alone.
encodeByteUnhashed(F, b) == BufferWrite(F, <<b>>)

encodeByte(F, b) == Write(F, <<b>>)

encodeOperator(F, op) == encodeByte(F, op)

encodeBool(F, b) == IF b THEN encodeByte(F, 1) ELSE encodeByte(F, 0)

\* encodeDataSource writing the id through Write, so into the hash as well.
encodeDataSourceHashesId(F, id, name) == writeHash(Write(F, PutVarint(id)), name)

\* encodeDataSource writing the name through Write, so into the buffer as well.
encodeDataSourceWritesName(F, id, name) == Write(BufferWrite(F, PutVarint(id)), name)

encodeDataSource(F, id, name) == writeHash(BufferWrite(F, PutVarint(id)), name)

encodeID(F, id) == encodeInt(F, id)

\* encodeNodeColumnOrdinals writing the ordinals after their number.
RECURSIVE encodeNodeColumnOrdinalsEach(_, _)
encodeNodeColumnOrdinalsEach(F, vals) ==
    IF vals = <<>> THEN encodeInt(F, 0)
    ELSE encodeInt(encodeNodeColumnOrdinalsEach(F, Tail(vals)), Head(vals))

encodeNodeColumnOrdinals(F, vals) == encodeInt(F, Len(vals))

encodeResultColumns(F, vals) == encodeInt(F, Len(vals))

encodeRows(F, rows) == encodeInt(F, Len(rows))

\* encodeColumnOrdering writing the number of columns of the ordering.
encodeColumnOrderingCount(F, cols) == encodeInt(F, Len(cols))

encodeColumnOrdering(F, cols) == F

\* params.NeededCols.Encode(f) (util.FastIntSet): the count of the set,
\* written through f.Write
NeededColsEncode(F, cols) == Write(F, PutVarint(Cardinality(cols)))

\* params is [NeededCols, IndexConstraint, InvertedConstraint, HardLimit];
\* a constraint is nil or holds its number of spans.
encodeScanParams(F, params) ==
    LET F1 == NeededColsEncode(F, params.NeededCols)
        F2 == encodeInt(F1, IF params.IndexConstraint.nil THEN 0
                            ELSE params.IndexConstraint.v)
        F3 == encodeInt(F2, IF params.InvertedConstraint.nil THEN 0
                            ELSE params.InvertedConstraint.v)
    IN  encodeInt(F3, params.HardLimit)

NewPlanGistFactory ==
    encodeInt([ZeroFactory EXCEPT !.hash = fnvBase], version)

\* PlanGist(): the base64 text of the buffer and the hash's sum
PlanGist(F) == [hash |-> F.hash, gist |-> EncodeToString(BufferBytes(F))]

----------------------------------------------------------------------------
(* Reading.  A read returns [f, ok, val, r]: the factory after the read,   *)
(* and either ok with the value read, or the value r the read panicked     *)
(* with (isError says whether r is a Go error value).                      *)

Ok(F, v) == [ok |-> TRUE, f |-> F, val |-> v, r |-> [isError |-> FALSE, msg |-> ""]]
Panic(F, isErr, msg) ==
    [ok |-> FALSE, f |-> F, val |-> Nil, r |-> [isError |-> isErr, msg |-> msg]]

\* binary.ReadVarint(&f.buffer), the unsigned part: x is the value so far,
\* sh the shift and i the number of bytes already read.
RECURSIVE ReadUvarint(_, _, _, _)
ReadUvarint(F, x, sh, i) ==
    IF i = MaxVarintLen64 THEN Panic(F, TRUE, "varint overflows")
    ELSE IF F.off >= Len(F.buf) THEN
        Panic(F, TRUE, IF i = 0 THEN "EOF" ELSE "unexpected EOF")
    ELSE LET b == F.buf[F.off + 1]
             G == [F EXCEPT !.off = @ + 1]
         IN  IF b < 128 THEN
                 IF i = MaxVarintLen64 - 1 /\ b > 1
                 THEN Panic(G, TRUE, "varint overflows")
                 ELSE Ok(G, Val(UOr(x, b, sh)))
             ELSE ReadUvarint(G, UOr(x, b - 128, sh), sh + 7, i + 1)

decodeInt(F) ==
    LET u == ReadUvarint(F, 0, 0, 0)
    IN  IF u.ok THEN Ok(u.f, Val(UnZigZag(u.val.v))) ELSE u

decodeByte(F) ==
    IF F.off >= Len(F.buf) THEN Panic(F, TRUE, "EOF")
    ELSE Ok([F EXCEPT !.off = @ + 1], Val(F.buf[F.off + 1]))

decodeID(F) == decodeInt(F)

decodeTable(F) ==
    LET d == decodeID(F)
    IN  IF ~d.ok THEN d
        ELSE IF d.val.v \in d.f.catalog.raises
            THEN Panic(d.f, FALSE, "catalog")
        ELSE IF d.val.v \in d.f.catalog.tables THEN Ok(d.f, Val(d.val.v))
        ELSE IF d.val.v \in d.f.catalog.views
            THEN Panic(d.f, TRUE, "interface conversion")
        ELSE Ok(d.f, Nil)

\* decodeIndex returning nil for a nil table before it reads the id.
decodeIndexKeepsId(F, tbl) ==
    IF tbl.nil THEN Ok(F, Nil)
    ELSE LET d == decodeID(F)
         IN  IF ~d.ok THEN d
             ELSE IF <<tbl.v, d.val.v>> \in d.f.catalog.indexes
                 THEN Ok(d.f, Val(d.val.v))
             ELSE Ok(d.f, Nil)

decodeIndex(F, tbl) ==
    LET d == decodeID(F)
    IN  IF ~d.ok THEN d
        ELSE IF tbl.nil THEN Ok(d.f, Nil)
        ELSE IF <<tbl.v, d.val.v>> \in d.f.catalog.indexes
            THEN Ok(d.f, Val(d.val.v))
        ELSE Ok(d.f, Nil)

decodeJoinType(F) == decodeByte(F)

decodeBool(F) ==
    LET d == decodeByte(F)
    IN  IF d.ok THEN Ok(d.f, Val(IF d.val.v # 0 THEN 1 ELSE 0)) ELSE d

decodeColumnOrdering(F) == Ok(F, Nil)

\* popChild returning no node when the stack is empty.
popChildOrNil(F) ==
    IF Len(F.nodeStack) = 0
    THEN [ok |-> TRUE, f |-> F,
          val |-> [op |-> unknownOp, args |-> <<>>, children |-> <<>>],
          r |-> [isError |-> FALSE, msg |-> ""]]
    ELSE [ok |-> TRUE,
          f |-> [F EXCEPT !.nodeStack = SubSeq(@, 1, Len(@) - 1)],
          val |-> F.nodeStack[Len(F.nodeStack)],
          r |-> [isError |-> FALSE, msg |-> ""]]

\* popChild returning the top node without taking it off the stack.
popChildKeepsTop(F) ==
    IF Len(F.nodeStack) = 0 THEN Panic(F, TRUE, "index out of range")
    ELSE [ok |-> TRUE, f |-> F, val |-> F.nodeStack[Len(F.nodeStack)],
          r |-> [isError |-> FALSE, msg |-> ""]]

\* popChild: indexing the empty stack is a run-time panic (a runtime.Error)
popChild(F) ==
    IF Len(F.nodeStack) = 0 THEN Panic(F, TRUE, "index out of range")
    ELSE [ok |-> TRUE,
          f |-> [F EXCEPT !.nodeStack = SubSeq(@, 1, Len(@) - 1)],
          val |-> F.nodeStack[Len(F.nodeStack)],
          r |-> [isError |-> FALSE, msg |-> ""]]

----------------------------------------------------------------------------
(* The operator registry and the generated per-operator code               *)
(* (decodeOperatorBody and the Construct methods of the encode facade):    *)
(* one opcode byte, then the operator's payload; the children are the      *)
(* nodes built last.                                                       *)

Operators == {scanOp, hashJoinOp, sortOp, lookupJoinOp, errorIfRowsOp}

Arity(op) ==
    CASE op = scanOp -> 0
      [] op = hashJoinOp -> 2
      [] op = sortOp -> 1
      [] op = lookupJoinOp -> 1
      [] op = errorIfRowsOp -> 1

\* The payload of an operator: the kinds of its encoded fields, in order.
Payload(op) ==
    CASE op = scanOp -> <<"table">>
      [] op = hashJoinOp -> <<"joinType">>
      [] op = sortOp -> <<"ordering">>
      [] op = lookupJoinOp -> <<"table", "index">>
      [] op = errorIfRowsOp -> <<>>

NilNode == [op |-> unknownOp, args |-> <<>>, children |-> <<>>]

newNode(op, args, children) == [op |-> op, args |-> args, children |-> children]

\* The table decoded last (the generated code's tbl), nil when none was.
LastTable(kinds, args) ==
    LET at == {k \in 1..Len(args) : kinds[k] = "table"}
    IN  IF at = {} THEN Nil
        ELSE args[CHOOSE k \in at : \A m \in at : m <= k]

decodeField(F, kind, tbl) ==
    CASE kind = "table" -> decodeTable(F)
      [] kind = "index" -> decodeIndex(F, tbl)
      [] kind = "joinType" -> decodeJoinType(F)
      [] kind = "ordering" -> decodeColumnOrdering(F)

\* Reads the fields kinds[Len(args)+1 ..] after the fields args already read.
RECURSIVE decodePayload(_, _, _)
decodePayload(F, kinds, args) ==
    IF Len(args) = Len(kinds) THEN [ok |-> TRUE, f |-> F, val |-> args,
                                    r |-> [isError |-> FALSE, msg |-> ""]]
    ELSE LET d == decodeField(F, kinds[Len(args) + 1], LastTable(kinds, args))
         IN  IF d.ok THEN decodePayload(d.f, kinds, Append(args, d.val))
             ELSE d

\* popChildren keeping the children in the order they were popped.
RECURSIVE popChildrenReversed(_, _, _)
popChildrenReversed(F, n, children) ==
    IF n = 0 THEN [ok |-> TRUE, f |-> F, val |-> children,
                   r |-> [isError |-> FALSE, msg |-> ""]]
    ELSE LET c == popChild(F)
         IN  IF c.ok THEN popChildrenReversed(c.f, n - 1, Append(children, c.val))
             ELSE c

\* Pops n children; the node popped first is the last child.
RECURSIVE popChildren(_, _, _)
popChildren(F, n, children) ==
    IF n = 0 THEN [ok |-> TRUE, f |-> F, val |-> children,
                   r |-> [isError |-> FALSE, msg |-> ""]]
    ELSE LET c == popChild(F)
         IN  IF c.ok THEN popChildren(c.f, n - 1, <<c.val>> \o children)
             ELSE c

\* decodeOperatorBody returns (node, err); err is TRUE when an error is
\* returned (no such operator), and the call may also panic (ok FALSE).
\* The payload a is read first, then the children c are popped.
BodyNode(op, a, c) ==
    IF ~c.ok
    THEN [ok |-> FALSE, f |-> c.f, val |-> NilNode, r |-> c.r, err |-> FALSE]
    ELSE [ok |-> TRUE, f |-> c.f, val |-> newNode(op, a.val, c.val),
          r |-> c.r, err |-> FALSE]

BodyChildren(op, a) ==
    IF ~a.ok
    THEN [ok |-> FALSE, f |-> a.f, val |-> NilNode, r |-> a.r, err |-> FALSE]
    ELSE BodyNode(op, a, popChildren(a.f, Arity(op), <<>>))

decodeOperatorBody(F, op) ==
    IF op \notin Operators
    THEN [ok |-> TRUE, f |-> F, val |-> NilNode,
          r |-> [isError |-> TRUE, msg |-> "invalid op"], err |-> TRUE]
    ELSE BodyChildren(op, decodePayload(F, Payload(op), <<>>))

\* decodeOp: [f, ok, op, r]; a node is pushed unless op is unknownOp.
\* n is what decodeOperatorBody returned: an error is raised as a panic.
PushNode(n) ==
    IF ~n.ok \/ n.err
    THEN [ok |-> FALSE, op |-> unknownOp, f |-> n.f, r |-> n.r]
    ELSE [ok |-> TRUE, op |-> n.val.op,
          f |-> [n.f EXCEPT !.nodeStack = Append(@, n.val)], r |-> n.r]

\* decodeOp ending only at the end of the buffer: a zero byte is an opcode.
decodeOpZeroIsOpcode(F) ==
    IF F.off >= Len(F.buf)
    THEN [ok |-> TRUE, op |-> unknownOp, f |-> F,
          r |-> [isError |-> FALSE, msg |-> ""]]
    ELSE PushNode(decodeOperatorBody([F EXCEPT !.off = @ + 1], F.buf[F.off + 1]))

\* decodeOp looking at the opcode byte without taking it out of the buffer.
decodeOpPeeks(F) ==
    IF F.off >= Len(F.buf) \/ F.buf[F.off + 1] = 0
    THEN [ok |-> TRUE, op |-> unknownOp,
          f |-> [F EXCEPT !.off = IF @ >= Len(F.buf) THEN @ ELSE @ + 1],
          r |-> [isError |-> FALSE, msg |-> ""]]
    ELSE PushNode(decodeOperatorBody(F, F.buf[F.off + 1]))

decodeOp(F) ==
    IF F.off >= Len(F.buf) \/ F.buf[F.off + 1] = 0
    THEN [ok |-> TRUE, op |-> unknownOp,
          f |-> [F EXCEPT !.off = IF @ >= Len(F.buf) THEN @ ELSE @ + 1],
          r |-> [isError |-> FALSE, msg |-> ""]]
    ELSE PushNode(decodeOperatorBody([F EXCEPT !.off = @ + 1], F.buf[F.off + 1]))

\* errorutil.ShouldCatch(r): a panic value that is an error is caught
ShouldCatch(r) == r.isError

\* An argument of a construction call: a data source (id and name), or a
\* scalar in id.
Arg(id, name) == [id |-> id, name |-> name]

encodeField(F, kind, a) ==
    CASE kind = "table" -> encodeDataSource(F, a.id, a.name)
      [] kind = "index" -> encodeDataSource(F, a.id, a.name)
      [] kind = "joinType" -> encodeByte(F, a.id)
      [] kind = "ordering" -> encodeColumnOrdering(F, a.id)

RECURSIVE encodePayload(_, _, _)
encodePayload(F, kinds, args) ==
    IF kinds = <<>> THEN F
    ELSE encodePayload(encodeField(F, Head(kinds), Head(args)),
                       Tail(kinds), Tail(args))

\* Construct<Op>(children..., args...): the opcode, then the payload
Construct(F, op, args) == encodePayload(encodeOperator(F, op), Payload(op), args)

----------------------------------------------------------------------------
(* State.  Every variable is a function of the factory instance.           *)

VARIABLES
    factory,    \* the PlanGistFactory of each instance
    pc,         \* where the caller driving the instance is
    s,          \* DecodePlanGistToPlan's argument s (a base64 string)
    cat,        \* DecodePlanGistToPlan's argument cat
    plan,       \* DecodePlanGistToPlan's result plan
    retErr,     \* DecodePlanGistToPlan's result retErr ("nil" when nil)
    r,          \* the value of the panic in flight, or that escaped
    gist,       \* the PlanGist value returned by PlanGist()
    built,      \* the nodes constructed and not yet used as a child
    log,        \* the writer calls made on the instance, in order
    pushed,     \* how many nodes decodeOp has pushed on the operand stack
    taken,      \* the writer calls made before the last PlanGist() call, or -1
    ex          \* the state of an UpdateDescriptorJobIDs call (scexec)

vars ==
    <<factory, pc, s, cat, plan, retErr, r, gist, built, log, pushed, taken, ex>>

NilPlan == [nil |-> TRUE, Root |-> NilNode, Checks |-> <<>>, Subqueries |-> <<>>]
\* &Plan{}
EmptyPlan == [nil |-> FALSE, Root |-> NilNode, Checks |-> <<>>, Subqueries |-> <<>>]
NoPanic == [isError |-> FALSE, msg |-> ""]
NoGist == [hash |-> [i \in 1..8 |-> 0], gist |-> <<>>]

----------------------------------------------------------------------------
(* Inputs.                                                                 *)

\* tree.Name values: "t" and "ab"
NameT == <<116>>
NameAB == <<97, 98>>

\* The data sources the encoded plans refer to: a table id takes one varint
\* byte (5) or two (64).
Tables == {Arg(5, NameT), Arg(64, NameAB)}
PrimaryIndex == Arg(1, <<112>>)
InnerJoin == 0

\* The catalog the plans were built from, and the same after table 5 was
\* dropped and table 64 lost its index.
CatSame == [tables |-> {5, 64}, views |-> {}, raises |-> {},
            indexes |-> {<<5, 1>>, <<64, 1>>}]
CatDropped == [tables |-> {64}, views |-> {}, raises |-> {}, indexes |-> {}]
\* A catalog for arbitrary input: id 5 is a table with index 5, id -5 a
\* view, and the collaborator panics on id 10.
CatOdd == [tables |-> {5}, views |-> {-5}, raises |-> {10},
           indexes |-> {<<5, 5>>}]

\* What an arbitrary decode input is made of: single bytes (the sentinel, the
\* opcodes, varint bytes, 128 is a varint continuation and no opcode) and
\* whole records.
Chunks ==
    {<<0>>, <<scanOp>>, <<hashJoinOp>>, <<10>>, <<sortOp>>, <<lookupJoinOp>>,
     <<errorIfRowsOp>>, <<128>>,
     <<scanOp, 10>>, <<scanOp, 128, 1>>, <<hashJoinOp, InnerJoin>>,
     <<lookupJoinOp, 10, 10>>}

RECURSIVE Bodies(_)
Bodies(n) ==
    IF n = 0 THEN {<<>>}
    ELSE {<<>>} \cup {c \o b : c \in Chunks, b \in Bodies(n - 1)}

\* Other leading bytes: another version (2, 64), the version in two bytes,
\* no varint (nothing, a lone continuation byte).
OtherPrefixes == {<<4>>, <<128, 1>>, <<130, 0>>, <<>>, <<128>>}

InputBytes ==
    {PutVarint(version) \o b : b \in Bodies(MaxChunks)}
    \cup {p \o b : p \in OtherPrefixes, b \in Bodies(1)}

\* Strings that are not base64: a length that is no multiple of four,
\* padding in the middle.
CorruptStrings == {<<0>>, <<0, 32, Pad, 0>>, <<0, 32, 0, Pad, 0, 32, 0, 0>>}

InputStrings == {EncodeToString(b) : b \in InputBytes} \cup CorruptStrings

----------------------------------------------------------------------------
(* The writer calls of two encode runs that differ at most in the ids      *)
(* given to encodeDataSource.                                              *)

Call(op, n, data) == [n |-> n, data |-> data, op |-> op]

Apply(F, c) ==
    CASE c.op = "Write" -> Write(F, c.data)
      [] c.op = "encodeInt" -> encodeInt(F, c.n)
      [] c.op = "encodeByte" -> encodeByte(F, c.n)
      [] c.op = "encodeBool" -> encodeBool(F, c.n = 1)
      [] c.op = "encodeOperator" -> encodeOperator(F, c.n)
      [] c.op = "encodeID" -> encodeID(F, c.n)
      [] c.op = "encodeNodeColumnOrdinals" -> encodeNodeColumnOrdinals(F, c.data)
      [] c.op = "encodeResultColumns" -> encodeResultColumns(F, c.data)
      [] c.op = "encodeRows" -> encodeRows(F, c.data)
      [] c.op = "encodeDataSource" -> encodeDataSource(F, c.n, c.data)
      [] c.op = "encodeScanParams" -> encodeScanParams(F, c.data)

Twin(c1, c2) ==
    /\ pc[1] = "write" /\ pc[2] = "write"
    /\ Len(log[1]) < MaxCalls
    /\ factory' = [factory EXCEPT ![1] = Apply(@, c1), ![2] = Apply(@, c2)]
    /\ log' = [log EXCEPT ![1] = Append(@, c1), ![2] = Append(@, c2)]
    /\ UNCHANGED <<pc, s, cat, plan, retErr, r, gist, built, pushed, taken, ex>>

CallWrite ==
    \E d \in {<<>>, <<7, 200>>} : Twin(Call("Write", 0, d), Call("Write", 0, d))

CallEncodeInt ==
    \E n \in {-1, 64} : Twin(Call("encodeInt", n, <<>>), Call("encodeInt", n, <<>>))

CallEncodeByte ==
    \E b \in {255} : Twin(Call("encodeByte", b, <<>>), Call("encodeByte", b, <<>>))

CallEncodeBool ==
    \E b \in {0, 1} : Twin(Call("encodeBool", b, <<>>), Call("encodeBool", b, <<>>))

CallEncodeOperator ==
    \E op \in {scanOp} :
        Twin(Call("encodeOperator", op, <<>>), Call("encodeOperator", op, <<>>))

CallEncodeID ==
    \E id \in {5} : Twin(Call("encodeID", id, <<>>), Call("encodeID", id, <<>>))

CallEncodeNodeColumnOrdinals ==
    \E v \in {<<>>, <<1, 2>>} :
        Twin(Call("encodeNodeColumnOrdinals", 0, v),
             Call("encodeNodeColumnOrdinals", 0, v))

CallEncodeResultColumns ==
    \E v \in {<<3>>} :
        Twin(Call("encodeResultColumns", 0, v), Call("encodeResultColumns", 0, v))

CallEncodeRows ==
    \E v \in {<<>>, <<4>>} : Twin(Call("encodeRows", 0, v), Call("encodeRows", 0, v))

CallEncodeDataSource ==
    \E id1 \in {5, 64}, id2 \in {5, 64}, name \in {NameT, NameAB} :
        Twin(Call("encodeDataSource", id1, name), Call("encodeDataSource", id2, name))

\* Writer calls with a list, the two factories being given lists of the
\* same length.
ListPairs == {<<<<>>, <<>>>>, <<<<1, 2>>, <<1, 2>>>>, <<<<1, 2>>, <<4, 3>>>>}

ListNodeColumnOrdinals ==
    \E v \in ListPairs :
        Twin(Call("encodeNodeColumnOrdinals", 0, v[1]),
             Call("encodeNodeColumnOrdinals", 0, v[2]))

ListResultColumns ==
    \E v \in ListPairs :
        Twin(Call("encodeResultColumns", 0, v[1]),
             Call("encodeResultColumns", 0, v[2]))

ListRows ==
    \E v \in ListPairs :
        Twin(Call("encodeRows", 0, v[1]), Call("encodeRows", 0, v[2]))

\* exec.ScanParams that differ at most in the needed columns
ScanParams(cols, spans) ==
    [NeededCols |-> cols, IndexConstraint |-> spans,
     InvertedConstraint |-> Nil, HardLimit |-> 64]

ListScanParams ==
    \E cols \in {<<{}, {}>>, <<{1, 2}, {1, 2}>>, <<{1, 2}, {3, 70}>>},
       spans \in {Nil, Val(2)} :
        Twin(Call("encodeScanParams", 0, ScanParams(cols[1], spans)),
             Call("encodeScanParams", 0, ScanParams(cols[2], spans)))

\* PlanGist() reading the bytes out of the buffer, which empties it.
CallPlanGistDrains ==
    /\ pc[1] = "write" /\ pc[2] = "write"
    /\ gist' = [i \in Inst |-> PlanGist(factory[i])]
    /\ taken' = [i \in Inst |-> Len(log[i])]
    /\ factory' = [i \in Inst |-> [factory[i] EXCEPT !.off = Len(factory[i].buf)]]
    /\ UNCHANGED <<pc, s, cat, plan, retErr, r, built, log, pushed, ex>>

\* PlanGist() is called on both factories, at any time between writer calls.
CallPlanGist ==
    /\ pc[1] = "write" /\ pc[2] = "write"
    /\ gist' = [i \in Inst |-> PlanGist(factory[i])]
    /\ taken' = [i \in Inst |-> Len(log[i])]
    /\ UNCHANGED <<factory, pc, s, cat, plan, retErr, r, built, log, pushed, ex>>

\* One caller makes a writer call on its own factory, or takes its gist,
\* while the other caller is anywhere in its own calls.
WriteOn(i) ==
    /\ pc[i] = "write"
    /\ Len(log[i]) < MaxCalls
    /\ \E c \in {Call("encodeInt", 64, <<>>), Call("encodeByte", 255, <<>>),
                 Call("encodeDataSource", 5, NameT)} :
          /\ factory' = [factory EXCEPT ![i] = Apply(@, c)]
          /\ log' = [log EXCEPT ![i] = Append(@, c)]
    /\ UNCHANGED <<pc, s, cat, plan, retErr, r, gist, built, pushed, taken, ex>>

PlanGistOn(i) ==
    /\ pc[i] = "write"
    /\ gist' = [gist EXCEPT ![i] = PlanGist(factory[i])]
    /\ taken' = [taken EXCEPT ![i] = Len(log[i])]
    /\ UNCHANGED <<factory, pc, s, cat, plan, retErr, r, built, log, pushed, ex>>

----------------------------------------------------------------------------
(* The encode facade, driven by the exec builder on instance 1: every      *)
(* construction call takes the nodes built last as its children.           *)

RECURSIVE Size(_)
Size(n) ==
    1 + (IF n.children = <<>> THEN 0
         ELSE Size(Head(n.children))
              + Size([n EXCEPT !.children = Tail(@)]) - 1)

RECURSIVE Sizes(_)
Sizes(ns) == IF ns = <<>> THEN 0 ELSE Size(Head(ns)) + Sizes(Tail(ns))

ConstructCall(op, args) ==
    LET k == Len(built[1]) - Arity(op)
    IN  /\ pc[1] = "encode"
        /\ Sizes(built[1]) < MaxOps
        /\ k >= 0
        /\ factory' = [factory EXCEPT ![1] = Construct(@, op, args)]
        /\ built' = [built EXCEPT ![1] =
              Append(SubSeq(@, 1, k),
                     newNode(op, args, SubSeq(@, k + 1, Len(@))))]
        /\ UNCHANGED <<pc, s, cat, plan, retErr, r, gist, log, pushed, taken, ex>>

ConstructScan == \E tbl \in Tables : ConstructCall(scanOp, <<tbl>>)

ConstructSort == ConstructCall(sortOp, <<Arg(0, <<>>)>>)

\* Column orderings: columns, a negative one being descending.
Orderings == {<<>>, <<1>>, <<2, -1>>}

\* ConstructSort(input, ordering, ...) with any ordering
ConstructSortOrdered == \E o \in Orderings : ConstructCall(sortOp, <<Arg(o, <<>>)>>)

ConstructHashJoin == ConstructCall(hashJoinOp, <<Arg(InnerJoin, <<>>)>>)

ConstructLookupJoin ==
    \E tbl \in Tables : ConstructCall(lookupJoinOp, <<tbl, PrimaryIndex>>)

ConstructErrorIfRows == ConstructCall(errorIfRowsOp, <<>>)

\* ConstructPlan appending a sentinel opcode byte.
ConstructPlanWritesSentinel ==
    /\ pc[1] = "encode"
    /\ factory' = [factory EXCEPT ![1] = encodeOperator(@, unknownOp)]
    /\ pc' = [pc EXCEPT ![1] = "planned"]
    /\ UNCHANGED <<s, cat, plan, retErr, r, gist, built, log, pushed, taken, ex>>

\* ConstructPlan delegates to the wrapped factory and writes nothing.
ConstructPlan ==
    /\ pc[1] = "encode"
    /\ pc' = [pc EXCEPT ![1] = "planned"]
    /\ UNCHANGED <<factory, s, cat, plan, retErr, r, gist, built, log, pushed, taken, ex>>

\* The caller takes the gist and later hands its string to
\* DecodePlanGistToPlan (run on instance 2) with a catalog.
TakePlanGist ==
    /\ pc[1] = "planned"
    /\ \E c \in {CatSame, CatDropped} :
          cat' = [cat EXCEPT ![2] = c]
    /\ gist' = [gist EXCEPT ![1] = PlanGist(factory[1])]
    /\ s' = [s EXCEPT ![2] = PlanGist(factory[1]).gist]
    /\ pc' = [pc EXCEPT ![1] = "done", ![2] = "start"]
    /\ UNCHANGED <<factory, plan, retErr, r, built, log, pushed, taken, ex>>

----------------------------------------------------------------------------
(* DecodePlanGistToPlan(s, cat) on instance i, step by step.               *)

\* DecodePlanGistToPlan keeping its factory in one place for all calls.
DecodeStartShared(i) ==
    /\ pc[i] = "start"
    /\ LET f == [NewPlanGistFactory EXCEPT !.catalog = cat[i]]
           bytes == DecodeString(s[i])
       IN  IF ~bytes.ok
           THEN /\ factory' = [j \in Inst |-> f]
                /\ plan' = [plan EXCEPT ![i] = NilPlan]
                /\ retErr' = [retErr EXCEPT ![i] = "illegal base64 data"]
                /\ pc' = [pc EXCEPT ![i] = "returned"]
           ELSE /\ factory' = [j \in Inst |->
                                  BufferWrite(BufferReset(f), bytes.bytes)]
                /\ plan' = [plan EXCEPT ![i] = EmptyPlan]
                /\ retErr' = [retErr EXCEPT ![i] = "nil"]
                /\ pc' = [pc EXCEPT ![i] = "version"]
    /\ UNCHANGED <<s, cat, r, gist, built, log, pushed, taken, ex>>

\* Lines 159-170: the factory, the base64 decoding, the buffer, the plan.
DecodeStart(i) ==
    /\ pc[i] = "start"
    /\ LET f == [NewPlanGistFactory EXCEPT !.catalog = cat[i]]
           bytes == DecodeString(s[i])
       IN  IF ~bytes.ok
           THEN /\ factory' = [factory EXCEPT ![i] = f]
                /\ plan' = [plan EXCEPT ![i] = NilPlan]
                /\ retErr' = [retErr EXCEPT ![i] = "illegal base64 data"]
                /\ pc' = [pc EXCEPT ![i] = "returned"]
           ELSE /\ factory' = [factory EXCEPT ![i] =
                                  BufferWrite(BufferReset(f), bytes.bytes)]
                /\ plan' = [plan EXCEPT ![i] = EmptyPlan]
                /\ retErr' = [retErr EXCEPT ![i] = "nil"]
                /\ pc' = [pc EXCEPT ![i] = "version"]
    /\ UNCHANGED <<s, cat, r, gist, built, log, pushed, taken, ex>>

\* DecodePlanGistToPlan without the comparison of lines 189-191.
DecodeVersionUnchecked(i) ==
    /\ pc[i] = "version"
    /\ LET ver == decodeInt(factory[i])
       IN  /\ factory' = [factory EXCEPT ![i] = ver.f]
           /\ IF ~ver.ok
              THEN /\ r' = [r EXCEPT ![i] = ver.r]
                   /\ pc' = [pc EXCEPT ![i] = "recover"]
              ELSE /\ pc' = [pc EXCEPT ![i] = "loop"]
                   /\ UNCHANGED r
    /\ UNCHANGED <<s, cat, plan, retErr, gist, built, log, pushed, taken, ex>>

\* Lines 188-191: the version.
DecodeVersion(i) ==
    /\ pc[i] = "version"
    /\ LET ver == decodeInt(factory[i])
       IN  /\ factory' = [factory EXCEPT ![i] = ver.f]
           /\ IF ~ver.ok
              THEN /\ r' = [r EXCEPT ![i] = ver.r]
                   /\ pc' = [pc EXCEPT ![i] = "recover"]
                   /\ UNCHANGED <<plan, retErr>>
              ELSE IF ver.val.v # version
              THEN /\ plan' = [plan EXCEPT ![i] = NilPlan]
                   /\ retErr' = [retErr EXCEPT ![i] =
                                    "unsupported old plan gist version"]
                   /\ pc' = [pc EXCEPT ![i] = "returned"]
                   /\ UNCHANGED r
              ELSE /\ pc' = [pc EXCEPT ![i] = "loop"]
                   /\ UNCHANGED <<plan, retErr, r>>
    /\ UNCHANGED <<s, cat, gist, built, log, pushed, taken, ex>>

\* The record loop going on after a zero byte that is not the last byte.
DecodeOpPastZero(i) ==
    /\ pc[i] = "loop"
    /\ LET op == decodeOp(factory[i])
       IN  /\ factory' = [factory EXCEPT ![i] = op.f]
           /\ IF ~op.ok
              THEN /\ r' = [r EXCEPT ![i] = op.r]
                   /\ pc' = [pc EXCEPT ![i] = "recover"]
              ELSE /\ pc' = [pc EXCEPT ![i] =
                         IF op.op # unknownOp THEN "switch"
                         ELSE IF op.f.off < Len(op.f.buf) THEN "loop"
                         ELSE "finish"]
                   /\ UNCHANGED r
           /\ pushed' = [pushed EXCEPT ![i] =
                 IF op.ok /\ op.op # unknownOp THEN @ + 1 ELSE @]
    /\ UNCHANGED <<s, cat, plan, retErr, gist, built, log, taken, ex>>

\* Line 194: op := f.decodeOp()
DecodeOp(i) ==
    /\ pc[i] = "loop"
    /\ LET op == decodeOp(factory[i])
       IN  /\ factory' = [factory EXCEPT ![i] = op.f]
           /\ IF ~op.ok
              THEN /\ r' = [r EXCEPT ![i] = op.r]
                   /\ pc' = [pc EXCEPT ![i] = "recover"]
              ELSE /\ pc' = [pc EXCEPT ![i] =
                         IF op.op = unknownOp THEN "finish" ELSE "switch"]
                   /\ UNCHANGED r
           /\ pushed' = [pushed EXCEPT ![i] =
                 IF op.ok /\ op.op # unknownOp THEN @ + 1 ELSE @]
    /\ UNCHANGED <<s, cat, plan, retErr, gist, built, log, taken, ex>>

\* The record loop without its switch: a check stays on the stack.
LoopSwitchKeepsCheck(i) ==
    /\ pc[i] = "switch"
    /\ pc' = [pc EXCEPT ![i] = "loop"]
    /\ UNCHANGED <<factory, plan, s, cat, retErr, r, gist, built, log, pushed, taken, ex>>

\* Lines 198-201: the node just pushed is a check, or stays on the stack.
LoopSwitch(i) ==
    /\ pc[i] = "switch"
    /\ LET op == factory[i].nodeStack[Len(factory[i].nodeStack)].op
           n == popChild(factory[i])
       IN  IF op = errorIfRowsOp
           THEN /\ factory' = [factory EXCEPT ![i] = n.f]
                /\ plan' = [plan EXCEPT ![i].Checks = Append(@, n.val)]
           ELSE UNCHANGED <<factory, plan>>
    /\ pc' = [pc EXCEPT ![i] = "loop"]
    /\ UNCHANGED <<s, cat, retErr, r, gist, built, log, pushed, taken, ex>>

\* Lines 204-213: the root, the subqueries, the return.
DecodeFinish(i) ==
    /\ pc[i] = "finish"
    /\ LET n == popChild(factory[i])
       IN  /\ factory' = [factory EXCEPT ![i] = n.f]
           /\ IF ~n.ok
              THEN /\ r' = [r EXCEPT ![i] = n.r]
                   /\ pc' = [pc EXCEPT ![i] = "recover"]
                   /\ UNCHANGED plan
              ELSE /\ plan' = [plan EXCEPT ![i].Root = n.val,
                                           ![i].Subqueries = n.f.nodeStack]
                   /\ pc' = [pc EXCEPT ![i] = "returned"]
                   /\ UNCHANGED r
    /\ UNCHANGED <<s, cat, retErr, gist, built, log, pushed, taken, ex>>

\* The deferred handler turning every panic value into the returned error.
RecoverCatchesAll(i) ==
    /\ pc[i] = "recover"
    /\ retErr' = [retErr EXCEPT ![i] = r[i].msg]
    /\ pc' = [pc EXCEPT ![i] = "returned"]
    /\ UNCHANGED <<factory, s, cat, plan, r, gist, built, log, pushed, taken, ex>>

\* Lines 172-186: the deferred handler, run when the decode panicked.
Recover(i) ==
    /\ pc[i] = "recover"
    /\ IF ShouldCatch(r[i])
       THEN /\ retErr' = [retErr EXCEPT ![i] = r[i].msg]
            /\ pc' = [pc EXCEPT ![i] = "returned"]
       ELSE /\ pc' = [pc EXCEPT ![i] = "panicked"]
            /\ UNCHANGED retErr
    /\ UNCHANGED <<factory, s, cat, plan, r, gist, built, log, pushed, taken, ex>>

Decode(i) ==
    \/ DecodeStart(i)
    \/ DecodeVersion(i)
    \/ DecodeOp(i)
    \/ LoopSwitch(i)
    \/ DecodeFinish(i)
    \/ Recover(i)

----------------------------------------------------------------------------
(* scexec.UpdateDescriptorJobIDs(ctx, catalog, descIDs, expectedID, newID). *)
(* The catalog collaborator knows of every descriptor id whether reading   *)
(* it fails ("missing"), whether it is a table, and the schema change job  *)
(* id of its mutable descriptor; the batcher queues descriptors and writes *)
(* them when it is run.                                                     *)

DescIDs == {1, 2, 3}

RECURSIVE SeqsUpTo(_, _)
SeqsUpTo(S, n) ==
    IF n = 0 THEN {<<>>}
    ELSE {<<>>} \cup {<<x>> \o q : x \in S, q \in SeqsUpTo(S, n - 1)}

\* No call of UpdateDescriptorJobIDs is under way.
NoCall ==
    [xpc |-> "none", descIDs |-> <<>>, expectedID |-> 0, newID |-> 0,
     processed |-> 0, descKind |-> [d \in DescIDs |-> "missing"],
     jobID |-> [d \in DescIDs |-> 0], batch |-> <<>>,
     stored |-> [d \in DescIDs |-> 0], result |-> "nil", runs |-> 0]

\* b.ValidateAndRun writes the queued descriptors as they are when it runs.
RunBatch(e) ==
    [d \in DescIDs |->
        IF \E k \in 1..Len(e.batch) : e.batch[k] = d THEN e.jobID[d]
        ELSE e.stored[d]]

\* Lines 58-79 without the comparison of lines 72-75.
LoopBodyUnchecked ==
    /\ ex.xpc = "loop"
    /\ ex.processed < Len(ex.descIDs)
    /\ LET id == ex.descIDs[ex.processed + 1]
       IN  IF ex.descKind[id] = "missing"
           THEN ex' = [ex EXCEPT !.xpc = "returned",
                                 !.result = "descriptor not found"]
           ELSE IF ex.descKind[id] # "table"
           THEN ex' = [ex EXCEPT !.processed = @ + 1]
           ELSE \E fails \in BOOLEAN :
                   IF fails
                   THEN ex' = [ex EXCEPT !.jobID[id] = ex.newID,
                                         !.xpc = "returned",
                                         !.result = "create or update failed"]
                   ELSE ex' = [ex EXCEPT !.jobID[id] = ex.newID,
                                         !.batch = Append(@, id),
                                         !.processed = @ + 1]
    /\ UNCHANGED <<factory, pc, s, cat, plan, retErr, r, gist, built, log,
                   pushed, taken>>

\* Lines 58-79: one iteration of the loop over descIDs.  The read fails, or
\* the descriptor is no table and is skipped, or its job id is not the
\* expected one, or it gets the new job id and is handed to the batcher,
\* which may fail.
LoopBody ==
    /\ ex.xpc = "loop"
    /\ ex.processed < Len(ex.descIDs)
    /\ LET id == ex.descIDs[ex.processed + 1]
       IN  IF ex.descKind[id] = "missing"
           THEN ex' = [ex EXCEPT !.xpc = "returned",
                                 !.result = "descriptor not found"]
           ELSE IF ex.descKind[id] # "table"
           THEN ex' = [ex EXCEPT !.processed = @ + 1]
           ELSE IF ex.jobID[id] # ex.expectedID
           THEN ex' = [ex EXCEPT !.xpc = "returned",
                                 !.result = "unexpected schema change job ID"]
           ELSE \E fails \in BOOLEAN :
                   IF fails
                   THEN ex' = [ex EXCEPT !.jobID[id] = ex.newID,
                                         !.xpc = "returned",
                                         !.result = "create or update failed"]
                   ELSE ex' = [ex EXCEPT !.jobID[id] = ex.newID,
                                         !.batch = Append(@, id),
                                         !.processed = @ + 1]
    /\ UNCHANGED <<factory, pc, s, cat, plan, retErr, r, gist, built, log,
                   pushed, taken>>

\* Line 82: return b.ValidateAndRun(ctx), after the loop.
ValidateAndRun ==
    /\ ex.xpc = "loop"
    /\ ex.processed = Len(ex.descIDs)
    /\ \E fails \in BOOLEAN :
          ex' = [ex EXCEPT !.xpc = "returned",
                           !.stored = IF fails THEN @ ELSE RunBatch(ex),
                           !.result = IF fails THEN "validation failed" ELSE "nil",
                           !.runs = @ + 1]
    /\ UNCHANGED <<factory, pc, s, cat, plan, retErr, r, gist, built, log,
                   pushed, taken>>

----------------------------------------------------------------------------
(* Specifications.                                                         *)

\* Nothing was returned, built or written yet.
NoResults ==
    /\ plan = [i \in Inst |-> NilPlan]
    /\ retErr = [i \in Inst |-> "nil"]
    /\ r = [i \in Inst |-> NoPanic]
    /\ gist = [i \in Inst |-> NoGist]
    /\ built = [i \in Inst |-> <<>>]
    /\ log = [i \in Inst |-> <<>>]
    /\ pushed = [i \in Inst |-> 0]
    /\ taken = [i \in Inst |-> -1]

Idle ==
    /\ s = [i \in Inst |-> <<>>]
    /\ cat = [i \in Inst |-> NoCatalog]
    /\ NoResults

\* A plan is encoded on a fresh factory (instance 1), and its gist decoded
\* (instance 2).
Init ==
    /\ factory = [i \in Inst |-> IF i = 1 THEN NewPlanGistFactory ELSE ZeroFactory]
    /\ pc = [i \in Inst |-> IF i = 1 THEN "encode" ELSE "idle"]
    /\ Idle
    /\ ex = NoCall

Next ==
    \/ ConstructScan
    \/ ConstructSort
    \/ ConstructHashJoin
    \/ ConstructLookupJoin
    \/ ConstructErrorIfRows
    \/ ConstructPlan
    \/ TakePlanGist
    \/ Decode(2)

Spec == Init /\ [][Next]_vars

\* DecodePlanGistToPlan on an arbitrary string and catalog (instance 2).
InitDecode ==
    /\ factory = [i \in Inst |-> ZeroFactory]
    /\ pc = [i \in Inst |-> IF i = 2 THEN "start" ELSE "idle"]
    /\ \E str \in InputStrings : s = [i \in Inst |-> IF i = 2 THEN str ELSE <<>>]
    /\ \E c \in {CatOdd, NoCatalog} :
          cat = [i \in Inst |-> IF i = 2 THEN c ELSE NoCatalog]
    /\ plan = [i \in Inst |-> NilPlan]
    /\ retErr = [i \in Inst |-> "nil"]
    /\ r = [i \in Inst |-> NoPanic]
    /\ gist = [i \in Inst |-> NoGist]
    /\ built = [i \in Inst |-> <<>>]
    /\ log = [i \in Inst |-> <<>>]
    /\ pushed = [i \in Inst |-> 0]
    /\ taken = [i \in Inst |-> -1]
    /\ ex = NoCall

NextDecode == Decode(2)

SpecDecode == InitDecode /\ [][NextDecode]_vars

\* The call on instance i has begun and has not ended: its next step can
\* be taken.
Running(i) ==
    pc[i] \in {"start", "version", "loop", "switch", "finish", "recover"}

\* DecodePlanGistToPlan runs on, nothing suspends it: weak fairness of its
\* steps, which are possible exactly while the call is running.
DecodeRunsOn == ([]<>~Running(2)) \/ ([]<><<NextDecode>>_vars)

SpecDecodeLive == SpecDecode /\ DecodeRunsOn

\* Two fresh factories receive the same writer calls.
InitWriter ==
    /\ factory = [i \in Inst |-> NewPlanGistFactory]
    /\ pc = [i \in Inst |-> "write"]
    /\ Idle
    /\ ex = NoCall

NextWriter ==
    \/ CallWrite
    \/ CallEncodeInt
    \/ CallEncodeByte
    \/ CallEncodeBool
    \/ CallEncodeOperator
    \/ CallEncodeID
    \/ CallEncodeNodeColumnOrdinals
    \/ CallEncodeResultColumns
    \/ CallEncodeRows
    \/ CallEncodeDataSource

SpecWriter == InitWriter /\ [][NextWriter]_vars

\* Two fresh factories receive writer calls and PlanGist() calls.
NextGist ==
    \/ CallWrite
    \/ CallEncodeInt
    \/ CallEncodeDataSource
    \/ CallPlanGist

SpecGist == InitWriter /\ [][NextGist]_vars

\* Two fresh factories receive the same writer calls, but for the elements
\* of the lists.
NextLists ==
    \/ ListNodeColumnOrdinals
    \/ ListResultColumns
    \/ ListRows
    \/ ListScanParams
    \/ CallEncodeOperator
    \/ CallEncodeBool

SpecLists == InitWriter /\ [][NextLists]_vars

\* Plans of scans and sorts with any ordering are encoded on a fresh
\* factory, and their gists decoded.
NextOrdering ==
    \/ ConstructScan
    \/ ConstructSortOrdered
    \/ ConstructPlan
    \/ TakePlanGist
    \/ Decode(2)

SpecOrdering == Init /\ [][NextOrdering]_vars

\* Two callers, each with its own factory, run interleaved: both encode, or
\* both decode the same string under the same catalog.
IsoInputs ==
    {EncodeToString(PutVarint(version) \o b) : b \in Bodies(MaxIsoChunks)}

InitIso ==
    /\ NoResults
    /\ ex = NoCall
    /\ \/ /\ factory = [i \in Inst |-> NewPlanGistFactory]
          /\ pc = [i \in Inst |-> "write"]
          /\ s = [i \in Inst |-> <<>>]
          /\ cat = [i \in Inst |-> NoCatalog]
       \/ /\ factory = [i \in Inst |-> ZeroFactory]
          /\ pc = [i \in Inst |-> "start"]
          /\ \E str \in IsoInputs : s = [i \in Inst |-> str]
          /\ \E c \in {CatOdd, NoCatalog} : cat = [i \in Inst |-> c]

NextIso ==
    \E i \in Inst :
        \/ WriteOn(i)
        \/ PlanGistOn(i)
        \/ Decode(i)

SpecIso == InitIso /\ [][NextIso]_vars

\* UpdateDescriptorJobIDs is called with at most MaxDescs descriptor ids, on
\* a catalog in any state.
InitJobs ==
    /\ factory = [i \in Inst |-> ZeroFactory]
    /\ pc = [i \in Inst |-> "idle"]
    /\ Idle
    /\ \E ids \in SeqsUpTo(DescIDs, MaxDescs),
          kinds \in [DescIDs -> {"table", "type", "missing"}],
          jobs \in [DescIDs -> {0, 7}],
          n \in {7, 8} :
          ex = [xpc |-> "loop", descIDs |-> ids, expectedID |-> 7, newID |-> n,
                processed |-> 0, descKind |-> kinds, jobID |-> jobs,
                batch |-> <<>>, stored |-> jobs, result |-> "nil", runs |-> 0]

NextJobs ==
    \/ LoopBody
    \/ ValidateAndRun

SpecJobs == InitJobs /\ [][NextJobs]_vars

----------------------------------------------------------------------------
(* Claims.                                                                 *)

\* The bytes that DecodePlanGistToPlan's argument s stands for.
InputOf(i) == DecodeString(s[i])

\* The position of the last byte of the varint b starts with, 0 when b
\* starts with no complete varint.
LeadLen(b) ==
    LET ends == {k \in 1..Len(b) : b[k] < 128}
    IN  IF ends = {} THEN 0 ELSE CHOOSE k \in ends : \A m \in ends : k <= m

LeadValue(b) == decodeInt([ZeroFactory EXCEPT !.buf = b]).val.v

\* s[i] is a buffer whose leading varint is another version.
VersionMismatch(i) ==
    /\ InputOf(i).ok
    /\ LeadLen(InputOf(i).bytes) > 0
    /\ LeadValue(InputOf(i).bytes) # version

\* C1: version gate.  Once the leading varint of a buffer has been read and
\* is not the version, DecodePlanGistToPlan has returned a nil plan and an
\* error: the read cursor stands right after that varint, no node was
\* pushed and nothing panicked.
C1_VersionGate ==
    \A i \in Inst :
        (VersionMismatch(i) /\ pc[i] \notin {"idle", "start", "version"}) =>
            /\ pc[i] = "returned"
            /\ plan[i].nil
            /\ retErr[i] = "unsupported old plan gist version"
            /\ factory[i].off = LeadLen(InputOf(i).bytes)
            /\ factory[i].nodeStack = <<>>
            /\ pushed[i] = 0
            /\ r[i] = NoPanic

\* A mismatched version was rejected with bytes left unread after it.
C1_Witness ==
    /\ VersionMismatch(2)
    /\ pc[2] = "returned"
    /\ factory[2].off < Len(factory[2].buf)
    /\ LeadLen(InputOf(2).bytes) = 2

\* The hash a PlanGist taken now would carry.
HashOf(i) == PlanGist(factory[i]).hash

IsDataSource(c) == c.op = "encodeDataSource"

\* Two logs of writer calls that agree but for the ids of encodeDataSource.
SameButIds(l1, l2) ==
    /\ Len(l1) = Len(l2)
    /\ \A k \in 1..Len(l1) :
          IF IsDataSource(l1[k])
          THEN IsDataSource(l2[k]) /\ l1[k].data = l2[k].data
          ELSE l1[k] = l2[k]

\* C2: identifier-independent hash.  Two fresh factories that received the
\* same writer calls, but for the ids given to encodeDataSource, have equal
\* hash accumulators after every call.
C2_IdIndependentHash ==
    SameButIds(log[1], log[2]) =>
        /\ factory[1].hash = factory[2].hash
        /\ HashOf(1) = HashOf(2)

\* The two runs gave different ids to encodeDataSource, and their buffers
\* differ.
C2_Witness ==
    /\ Len(log[1]) = MaxCalls
    /\ \E k \in 1..Len(log[1]) : IsDataSource(log[1][k]) /\ log[1][k].n # log[2][k].n
    /\ factory[1].buf # factory[2].buf
    /\ factory[1].hash = factory[2].hash

\* C3: buffer and hash stay in step.  As long as no encodeDataSource call
\* was made, the bytes fed to the hash are the buffer's content, in order,
\* starting with the version varint, and the accumulator is the FNV sum of
\* these bytes.
C3_BufferHashInStep ==
    \A i \in Inst :
        (pc[i] = "write" /\ \A k \in 1..Len(log[i]) : ~IsDataSource(log[i][k])) =>
            /\ factory[i].hashIn = factory[i].buf
            /\ SubSeq(factory[i].buf, 1, 1) = PutVarint(version)
            /\ factory[i].hash = HashAll(fnvBase, factory[i].buf)

\* Three calls were made, none of them encodeDataSource, that wrote at least
\* four bytes after the version.
C3_Witness ==
    /\ pc[1] = "write"
    /\ Len(log[1]) = MaxCalls
    /\ \A k \in 1..Len(log[1]) : ~IsDataSource(log[1][k])
    /\ Len(factory[1].buf) >= 5

\* What a writer call is to append to the buffer, and to feed to the hash.
IntBytes(c) ==
    CASE c.op = "Write" -> c.data
      [] c.op \in {"encodeInt", "encodeID"} -> PutVarint(c.n)
      [] c.op \in {"encodeByte", "encodeOperator", "encodeBool"} -> <<c.n>>
      [] c.op \in {"encodeNodeColumnOrdinals", "encodeResultColumns", "encodeRows"}
           -> PutVarint(Len(c.data))

ToBuffer(c) == IF IsDataSource(c) THEN PutVarint(c.n) ELSE IntBytes(c)

ToHash(c) == IF IsDataSource(c) THEN c.data ELSE IntBytes(c)

\* C4: identifier duality.  The buffer is the version varint followed by
\* what each call appends, where encodeDataSource appends the varint of the
\* id; the hash input is the same sequence with each such varint replaced by
\* the bytes of the name.
C4_IdentifierDuality ==
    \A i \in Inst :
        pc[i] = "write" =>
            /\ factory[i].buf = PutVarint(version)
                 \o Concat([k \in 1..Len(log[i]) |-> ToBuffer(log[i][k])])
            /\ factory[i].hashIn = PutVarint(version)
                 \o Concat([k \in 1..Len(log[i]) |-> ToHash(log[i][k])])

\* An encodeDataSource call with a two-byte id, between two other calls.
C4_Witness ==
    /\ Len(log[1]) = 3
    /\ ~IsDataSource(log[1][1])
    /\ IsDataSource(log[1][2]) /\ log[1][2].n = 64 /\ log[1][2].data = NameAB
    /\ log[1][3].op = "encodeInt"
    /\ factory[1].hashIn # factory[1].buf

\* The operators, arities and child order of a tree.
RECURSIVE Shape(_)
Shape(n) ==
    [op |-> n.op,
     children |-> [k \in 1..Len(n.children) |-> Shape(n.children[k])]]

\* No node of the tree is an errorIfRows (check) operator.
RECURSIVE NoCheckOp(_)
NoCheckOp(n) ==
    /\ n.op # errorIfRowsOp
    /\ \A k \in 1..Len(n.children) : NoCheckOp(n.children[k])

DecodeEnded(i) == pc[i] \in {"returned", "panicked"}

DecodedWell(i) == pc[i] = "returned" /\ retErr[i] = "nil" /\ ~plan[i].nil

\* C5 as stated: the gist of every plan tree built in post-order decodes,
\* under the catalog it was built from, without error to a tree of the same
\* operators, arities and child order.
C5_AnyTree ==
    (DecodeEnded(2) /\ cat[2] = CatSame /\ Len(built[1]) = 1) =>
        /\ DecodedWell(2)
        /\ Shape(plan[2].Root) = Shape(built[1][1])

\* C5, amended: the same for every plan tree without an errorIfRows
\* operator; nothing else is decoded (no check, no subquery).
C5_ShapeRoundTrip ==
    (DecodeEnded(2) /\ cat[2] = CatSame /\ Len(built[1]) = 1
        /\ NoCheckOp(built[1][1])) =>
        /\ DecodedWell(2)
        /\ Shape(plan[2].Root) = Shape(built[1][1])
        /\ plan[2].Checks = <<>>
        /\ plan[2].Subqueries = <<>>

\* A hash join of a scan and of a sorted scan came back.
C5_Witness ==
    /\ DecodedWell(2)
    /\ cat[2] = CatSame
    /\ Len(built[1]) = 1
    /\ built[1][1].op = hashJoinOp
    /\ built[1][1].children[1].op = scanOp
    /\ built[1][1].children[2].op = sortOp
    /\ Shape(plan[2].Root) = Shape(built[1][1])

\* What the field of kind kinds[k] decodes to under catalog c, given the
\* arguments a of the construction call.
DecodedArg(kinds, a, k, c) ==
    CASE kinds[k] = "table" -> IF a[k].id \in c.tables THEN Val(a[k].id) ELSE Nil
      [] kinds[k] = "index" ->
           IF a[k - 1].id \in c.tables /\ <<a[k - 1].id, a[k].id>> \in c.indexes
           THEN Val(a[k].id) ELSE Nil
      [] kinds[k] = "joinType" -> Val(a[k].id)
      [] kinds[k] = "ordering" -> Nil

\* The decoded tree dec is the encoded tree enc, with every table and index
\* that catalog c does not resolve replaced by nil.
RECURSIVE Resolved(_, _, _)
Resolved(dec, enc, c) ==
    /\ dec.op = enc.op
    /\ Len(dec.args) = Len(enc.args)
    /\ \A k \in 1..Len(enc.args) :
          dec.args[k] = DecodedArg(Payload(enc.op), enc.args, k, c)
    /\ Len(dec.children) = Len(enc.children)
    /\ \A k \in 1..Len(enc.children) : Resolved(dec.children[k], enc.children[k], c)

\* C6: missing object tolerance.  Under a catalog that no longer resolves a
\* table or an index of the plan, the decode ends without error with the
\* cursor at the end of the buffer; the root and the subqueries are the
\* encoded trees, with nil for each table the catalog does not resolve and
\* for each index whose table is nil or has no such index.
C6_MissingObjects ==
    (DecodeEnded(2) /\ cat[2] = CatDropped /\ Len(built[1]) >= 1
        /\ \A k \in 1..Len(built[1]) : NoCheckOp(built[1][k])) =>
        /\ DecodedWell(2)
        /\ factory[2].off = Len(factory[2].buf)
        /\ Resolved(plan[2].Root, built[1][Len(built[1])], CatDropped)
        /\ Len(plan[2].Subqueries) = Len(built[1]) - 1
        /\ \A k \in 1..(Len(built[1]) - 1) :
              Resolved(plan[2].Subqueries[k], built[1][k], CatDropped)

\* A lookup join on table 64, whose index is gone, over a lookup join on the
\* dropped table 5, came back with the nil markers.
C6_Witness ==
    /\ DecodedWell(2)
    /\ cat[2] = CatDropped
    /\ plan[2].Root.op = lookupJoinOp
    /\ plan[2].Root.args = <<Val(64), Nil>>
    /\ plan[2].Root.children[1].op = lookupJoinOp
    /\ plan[2].Root.children[1].args = <<Nil, Nil>>
    /\ built[1][1].children[1].args[1].id = 5

\* The decode of instance i ended, on the input bytes b.
EndedOn(i, b) == DecodeEnded(i) /\ InputOf(i).ok /\ InputOf(i).bytes = b

\* C7: structural corruption is reported, not fatal.  A panic raised in the
\* decode reaches the deferred handler; when its value is an error the call
\* returns that error, otherwise the panic leaves DecodePlanGistToPlan and
\* no error is returned.  A scan cut before or inside its table id, a hash
\* join cut before its join type and a byte that is no operator are
\* reported as errors.
C7_FaultsReported ==
    \A i \in Inst :
        /\ r[i] # NoPanic => pc[i] \in {"recover", "returned", "panicked"}
        /\ pc[i] = "recover" => r[i] # NoPanic
        /\ (pc[i] = "returned" /\ r[i] # NoPanic) =>
              r[i].isError /\ retErr[i] = r[i].msg /\ retErr[i] # "nil"
        /\ pc[i] = "panicked" =>
              r[i] # NoPanic /\ ~r[i].isError /\ retErr[i] = "nil"
        /\ EndedOn(i, <<2, scanOp>>) => pc[i] = "returned" /\ retErr[i] = "EOF"
        /\ EndedOn(i, <<2, scanOp, 128>>) =>
              pc[i] = "returned" /\ retErr[i] = "unexpected EOF"
        /\ EndedOn(i, <<2, hashJoinOp>>) => pc[i] = "returned" /\ retErr[i] = "EOF"
        /\ EndedOn(i, <<2, 128>>) => pc[i] = "returned" /\ retErr[i] = "invalid op"
        /\ (EndedOn(i, <<2, scanOp, 20>>) /\ cat[i] = CatOdd) => pc[i] = "panicked"

\* After one whole record, a table id cut inside its varint was reported.
C7_Witness ==
    /\ pc[2] = "returned"
    /\ r[2].isError
    /\ retErr[2] = "unexpected EOF"
    /\ pushed[2] >= 1

\* C8: operand stack at completion.  When DecodePlanGistToPlan returns
\* without error, the root is the node that was on top of the stack when
\* the record loop ended, the subqueries are the nodes below it from the
\* bottom up, and the nodes of the root, of the subqueries and of the
\* checks are together as many as the nodes that were pushed.
C8_StackAtCompletion ==
    [][\A i \in Inst :
          (pc[i] # "returned" /\ pc'[i] = "returned" /\ retErr'[i] = "nil") =>
              LET st == factory[i].nodeStack
              IN  /\ pc[i] = "finish"
                  /\ Len(st) >= 1
                  /\ ~plan'[i].nil
                  /\ plan'[i].Root = st[Len(st)]
                  /\ plan'[i].Subqueries = SubSeq(st, 1, Len(st) - 1)
                  /\ plan'[i].Checks = plan[i].Checks
                  /\ Size(plan'[i].Root) + Sizes(plan'[i].Subqueries)
                       + Sizes(plan'[i].Checks) = pushed'[i]]_vars

\* A decode returned a root with a child and a subquery below it.
C8_Witness ==
    /\ DecodedWell(2)
    /\ Len(plan[2].Subqueries) >= 1
    /\ Len(plan[2].Root.children) >= 1
    /\ pushed[2] = 3

\* No errorIfRows node is on the stack of instance i (but the node just
\* pushed, before the switch), is the root or a subquery, or is a child of
\* any decoded node; the checks are errorIfRows nodes.
ChecksApart(i) ==
    LET st == factory[i].nodeStack
        top == IF pc[i] = "switch" THEN Len(st) ELSE Len(st) + 1
    IN  /\ \A k \in 1..Len(st) :
              /\ k < top => st[k].op # errorIfRowsOp
              /\ \A c \in 1..Len(st[k].children) : NoCheckOp(st[k].children[c])
        /\ NoCheckOp(plan[i].Root)
        /\ \A k \in 1..Len(plan[i].Subqueries) : NoCheckOp(plan[i].Subqueries[k])
        /\ \A k \in 1..Len(plan[i].Checks) :
              /\ plan[i].Checks[k].op = errorIfRowsOp
              /\ \A c \in 1..Len(plan[i].Checks[k].children) :
                    NoCheckOp(plan[i].Checks[k].children[c])

ArgBytes(kind, a) ==
    CASE kind \in {"table", "index"} -> PutVarint(a.id)
      [] kind = "joinType" -> <<a.id>>
      [] kind = "ordering" -> <<>>

RECURSIVE Records(_)
Records(n) ==
    Concat([k \in 1..Len(n.children) |-> Records(n.children[k])])
    \o <<n.op>>
    \o Concat([k \in 1..Len(n.args) |-> ArgBytes(Payload(n.op)[k], n.args[k])])

\* The buffer of the gist taken on instance i.
GistBytes(i) == DecodeString(gist[i].gist).bytes

AllRecords(i) == Concat([k \in 1..Len(built[i]) |-> Records(built[i][k])])

SortOfScan5 ==
    newNode(sortOp, <<Arg(0, <<>>)>>, <<newNode(scanOp, <<Arg(5, NameT)>>, <<>>)>>)

\* C10 as stated: the buffer of a gist is the version varint, the records
\* and a terminating zero byte.
C10_SentinelTerminated ==
    pc[1] = "done" =>
        GistBytes(1) = PutVarint(version) \o AllRecords(1) \o <<0>>

\* C10, amended: the buffer of a gist is the version varint and the
\* records, and nothing after them; Scan(table id 5, name "t") inside Sort
\* gives [version][scanOp][varint 5][sortOp].
C10_VersionThenRecords ==
    pc[1] = "done" =>
        /\ GistBytes(1) = PutVarint(version) \o AllRecords(1)
        /\ built[1] = <<SortOfScan5>> => GistBytes(1) = <<2, scanOp, 10, sortOp>>

\* The gist of Scan(5, "t") inside Sort was taken.
C10_Witness ==
    /\ pc[1] = "done"
    /\ built[1] = <<SortOfScan5>>
    /\ gist[1].gist = EncodeToString(<<2, 1, 10, 17>>)

\* The whole records an input may hold, which of them lies at position k of
\* the bytes b, and <<the position after the records from k on, their
\* number added to n>>.
Recs ==
    {<<scanOp, 10>>, <<scanOp, 128, 1>>, <<hashJoinOp, InnerJoin>>,
     <<lookupJoinOp, 10, 10>>, <<sortOp>>, <<errorIfRowsOp>>}

RecAt(b, k) ==
    {c \in Recs : k + Len(c) - 1 <= Len(b) /\ SubSeq(b, k, k + Len(c) - 1) = c}

RECURSIVE SkipRecs(_, _, _)
SkipRecs(b, k, n) ==
    IF RecAt(b, k) = {} THEN <<k, n>>
    ELSE SkipRecs(b, k + Len(CHOOSE c \in RecAt(b, k) : TRUE), n + 1)

\* The layout varint(version) record* 0x00 record* of the bytes b: whether
\* b has it, with a record after the zero byte (form), the number of
\* records before the zero byte, its position and the number after it.
Layout(b) ==
    LET a == SkipRecs(b, 2, 0)
        c == SkipRecs(b, a[1] + 1, 0)
    IN  [form |-> /\ Len(b) >= 1 /\ b[1] = 2
                  /\ a[1] <= Len(b) /\ b[a[1]] = 0
                  /\ c[1] = Len(b) + 1 /\ c[2] >= 1,
         before |-> a[2], zero |-> a[1], after |-> c[2]]

\* The nodes of the plan returned on instance i.
PlanSize(i) ==
    Size(plan[i].Root) + Sizes(plan[i].Subqueries) + Sizes(plan[i].Checks)

\* C11 as stated: in a buffer varint(version) record* 0x00 record* the
\* records before the zero byte are the checks and the records after it
\* are decoded too, into the root and the subqueries.
C11_ChecksThenRoot ==
    (DecodedWell(2) /\ InputOf(2).ok /\ Layout(InputOf(2).bytes).form) =>
        /\ factory[2].off = Len(factory[2].buf)
        /\ Sizes(plan[2].Checks) = Layout(InputOf(2).bytes).before
        /\ Size(plan[2].Root) + Sizes(plan[2].Subqueries)
             = Layout(InputOf(2).bytes).after

\* C11, amended: in a buffer varint(version) record* 0x00 record* the
\* decoder never reads past the zero byte; when it returns a plan it has
\* decoded exactly the records before the zero byte, which make up the
\* root, the subqueries and the checks (the errorIfRows records), and no
\* record after the zero byte.
C11_RecordsBeforeZero ==
    (pc[2] # "start" /\ InputOf(2).ok /\ Layout(InputOf(2).bytes).form) =>
        LET l == Layout(InputOf(2).bytes)
        IN  /\ factory[2].off <= l.zero
            /\ pushed[2] <= l.before
            /\ DecodedWell(2) =>
                  /\ factory[2].off = l.zero
                  /\ pushed[2] = l.before
                  /\ PlanSize(2) = l.before
                  /\ \A k \in 1..Len(plan[2].Checks) :
                        plan[2].Checks[k].op = errorIfRowsOp

\* A decode of [version][scan 5][0x00][scan 5] returned the first scan.
C11_Witness ==
    /\ DecodedWell(2)
    /\ InputOf(2).bytes = <<2, scanOp, 10, 0, scanOp, 10>>
    /\ plan[2].Root.op = scanOp
    /\ factory[2].off = 4

\* The bytes the first n calls of the log l put in the buffer, and those
\* they fed to the hash, after the version.
BufferAfter(l, n) ==
    PutVarint(version) \o Concat([k \in 1..n |-> ToBuffer(l[k])])

HashInAfter(l, n) ==
    PutVarint(version) \o Concat([k \in 1..n |-> ToHash(l[k])])

\* C12: the gist is write-once.  A PlanGist() call leaves the buffer, the
\* hash accumulator and the operand stack as they are; a second call with
\* no write in between returns the same value; and a value returned stays
\* what it was, the gist of the calls made before it, whatever calls follow
\* on the factory.
C12_GistWriteOnce ==
    [][\A i \in Inst :
          /\ log'[i] = log[i] =>
                /\ factory'[i] = factory[i]
                /\ taken[i] = Len(log[i]) => gist'[i] = gist[i]
          /\ log'[i] # log[i] => gist'[i] = gist[i] /\ taken'[i] = taken[i]
          /\ taken'[i] >= 0 =>
                /\ gist'[i].gist = EncodeToString(BufferAfter(log'[i], taken'[i]))
                /\ gist'[i].hash = HashAll(fnvBase, HashInAfter(log'[i], taken'[i]))]_vars

\* A gist taken after one call differs from the one two more calls give.
C12_Witness ==
    /\ taken[1] = 1
    /\ Len(log[1]) = 3
    /\ gist[1].gist = EncodeToString(BufferAfter(log[1], 1))
    /\ gist[1] # PlanGist(factory[1])

IsList(c) ==
    c.op \in {"encodeNodeColumnOrdinals", "encodeResultColumns", "encodeRows"}

\* Two logs of writer calls that agree but for the elements of the lists
\* and of the needed columns, whose numbers agree.
SameButElements(l1, l2) ==
    /\ Len(l1) = Len(l2)
    /\ \A k \in 1..Len(l1) :
          /\ l1[k].op = l2[k].op
          /\ IF IsList(l1[k]) THEN Len(l1[k].data) = Len(l2[k].data)
             ELSE IF l1[k].op = "encodeScanParams"
             THEN /\ Cardinality(l1[k].data.NeededCols)
                       = Cardinality(l2[k].data.NeededCols)
                  /\ [l1[k].data EXCEPT !.NeededCols = {}]
                       = [l2[k].data EXCEPT !.NeededCols = {}]
             ELSE l1[k] = l2[k]

Own(i) ==
    <<factory[i], pc[i], s[i], cat[i], plan[i], retErr[i], r[i], gist[i],
      log[i], pushed[i], taken[i]>>

\* Two instances at the same point of the same calls: as many writer calls
\* made and the gist taken after as many, or the same place in the decode
\* with the read cursor at the same byte.
SamePoint(i, j) ==
    /\ pc[i] = pc[j]
    /\ IF pc[i] = "write"
       THEN log[i] = log[j] /\ taken[i] = taken[j]
       ELSE factory[i].off = factory[j].off

\* C14: instance isolation.  In every interleaving of two callers, each
\* step changes what belongs to one instance only, and two instances at
\* the same point of the same calls are in the same state: what an instance
\* holds and returns does not depend on how far the other instance is.
C14_InstanceIsolation ==
    [][/\ \E i \in Inst : \A j \in Inst \ {i} : Own(j)' = Own(j)
       /\ \A i, j \in Inst : SamePoint(i, j)' => Own(i)' = Own(j)']_vars

\* One decode has returned a plan while the other, given the same string,
\* has only read the version.
C14_Witness ==
    /\ DecodedWell(1)
    /\ pushed[1] = 2
    /\ pc[2] = "loop"
    /\ factory[2].off = 1
    /\ factory[2].nodeStack = <<>>

\* What is left to do on instance i: the bytes not yet read, then the
\* places of the call still ahead.
Rank(p) ==
    CASE p = "start" -> 6
      [] p = "version" -> 5
      [] p = "switch" -> 4
      [] p = "loop" -> 3
      [] p = "finish" -> 2
      [] p = "recover" -> 1
      [] OTHER -> 0

Measure(i) ==
    7 * (IF InputOf(i).ok THEN Len(InputOf(i).bytes) - factory[i].off ELSE 0)
    + Rank(pc[i])

\* C15 as stated: for every input and every catalog the decode ends by
\* returning, with a plan or an error.
C15_AlwaysReturns == DecodeEnded(2) => pc[2] = "returned"

\* C15, amended: for every input and every catalog the decode eventually
\* ends: it returns a plan or an error, or re-raises a fault whose value is
\* no error.  Every step brings the call nearer to its end, and every
\* iteration of the record loop that does not end the loop moves the read
\* cursor on by at least one byte and pushes one node, so the iterations
\* are at most as many as the bytes of the buffer.
C15_DecodeEnds ==
    /\ <>(DecodeEnded(2))
    /\ [](pc[2] = "panicked" => ~r[2].isError)
    /\ [](pushed[2] <= Len(factory[2].buf))
    /\ [][/\ Measure(2)' < Measure(2)
          /\ (pc[2] = "loop" /\ pc'[2] = "switch") =>
                /\ factory'[2].off > factory[2].off
                /\ pushed'[2] = pushed[2] + 1]_vars

\* A decode ended after three iterations that each pushed a node.
C15_Witness ==
    /\ DecodeEnded(2)
    /\ pushed[2] = 3
    /\ factory[2].off = Len(factory[2].buf)

\* The next opcode position of instance i holds the sentinel: the buffer
\* has no further byte, or the byte is zero.
AtSentinel(i) ==
    \/ factory[i].off >= Len(factory[i].buf)
    \/ factory[i].buf[factory[i].off + 1] = 0

\* The call on instance i has left the record loop.
PastLoop(i) == pc[i] \in {"finish", "recover", "returned", "panicked"}

\* C16: the record loop stops at the first opcode position that holds a
\* zero byte or lies at the end of the buffer: decodeOp then pushes no
\* node and reads no more than the zero byte, the loop stops for no other
\* opcode byte, and once the loop is left the read cursor never moves
\* again, so no byte after the sentinel is ever read.
C16_SentinelEndsLoop ==
    [][/\ (pc[2] = "loop" /\ AtSentinel(2)) =>
             /\ pc'[2] = "finish"
             /\ factory'[2].nodeStack = factory[2].nodeStack
             /\ pushed'[2] = pushed[2]
             /\ factory'[2].off =
                   IF factory[2].off >= Len(factory[2].buf)
                   THEN factory[2].off ELSE factory[2].off + 1
       /\ (pc[2] = "loop" /\ pc'[2] = "finish") => AtSentinel(2)
       /\ PastLoop(2) =>
             /\ PastLoop(2)'
             /\ factory'[2].off = factory[2].off
             /\ factory'[2].buf = factory[2].buf]_vars

\* A decode that returned a plan whose loop was ended by a zero byte with
\* a record left unread after it.
C16_Witness ==
    /\ pc[2] = "returned"
    /\ retErr[2] = "nil"
    /\ factory[2].off < Len(factory[2].buf)
    /\ factory[2].buf[factory[2].off] = 0
    /\ pushed[2] >= 1

\* The step constructs a sort node on instance 1.
SortConstructed ==
    /\ pc[1] = "encode"
    /\ built'[1] # built[1]
    /\ built'[1][Len(built'[1])].op = sortOp

\* The step decodes a sort record on instance 2.
SortDecoded ==
    /\ pc[2] = "loop"
    /\ pc'[2] = "switch"
    /\ factory[2].buf[factory[2].off + 1] = sortOp

\* C17: encodeColumnOrdering leaves the buffer and the hash as they are
\* for every ordering, and decodeColumnOrdering returns the empty ordering
\* and leaves the read cursor where it is.  So a sort with any ordering is
\* encoded as its opcode byte alone, decoding a sort record reads that one
\* byte, and the gist of a plan of sorts decodes to the operators that were
\* built, the whole buffer being read.
C17_OrderingNoOp ==
    /\ [](\A i \in Inst :
            /\ \A o \in Orderings :
                  encodeColumnOrdering(factory[i], o) = factory[i]
            /\ decodeColumnOrdering(factory[i]) = Ok(factory[i], Nil))
    /\ [][/\ SortConstructed =>
                /\ factory'[1].buf = factory[1].buf \o <<sortOp>>
                /\ factory'[1].hashIn = factory[1].hashIn \o <<sortOp>>
          /\ SortDecoded =>
                /\ factory'[2].off = factory[2].off + 1
                /\ factory'[2].nodeStack[Len(factory'[2].nodeStack)].args
                      = <<Nil>>]_vars
    /\ []((DecodeEnded(2) /\ cat[2] = CatSame /\ Len(built[1]) = 1) =>
            /\ DecodedWell(2)
            /\ Shape(plan[2].Root) = Shape(built[1][1])
            /\ factory[2].off = Len(factory[2].buf))

\* A sort by two columns, one descending, of a scan came back as a sort of
\* a scan with the empty ordering.
C17_Witness ==
    /\ DecodedWell(2)
    /\ Len(built[1]) = 1
    /\ built[1][1].op = sortOp
    /\ built[1][1].args = <<Arg(<<2, -1>>, <<>>)>>
    /\ plan[2].Root.op = sortOp
    /\ plan[2].Root.args = <<Nil>>
    /\ Len(plan[2].Root.children) = 1

\* The fault of popping a node off the empty stack.
StackDeficit == [isError |-> TRUE, msg |-> "index out of range"]

\* The record at the read cursor of instance i is an operator whose payload
\* reads well and which needs more children than the stack holds.
ShortOfChildren(i) ==
    /\ ~AtSentinel(i)
    /\ factory[i].buf[factory[i].off + 1] \in Operators
    /\ LET op == factory[i].buf[factory[i].off + 1]
           a == decodePayload([factory[i] EXCEPT !.off = @ + 1], Payload(op), <<>>)
       IN  a.ok /\ Arity(op) > Len(a.f.nodeStack)

\* C18: in a buffer with the right version, when a node must be popped
\* while the operand stack is empty (the loop ended with no node left for
\* the root, or an operator needs more children than the stack holds), the
\* fault is an error value, the deferred handler catches it, and
\* DecodePlanGistToPlan returns it as a non-nil error: the panic never
\* escapes.
C18_StackDeficitReported ==
    /\ [](r[2] = StackDeficit => pc[2] \in {"recover", "returned"})
    /\ []((pc[2] = "returned" /\ r[2] = StackDeficit) => retErr[2] # "nil")
    /\ [][/\ (pc[2] = "finish" /\ factory[2].nodeStack = <<>>) =>
                (pc'[2] = "recover" /\ r'[2] = StackDeficit)
          /\ (pc[2] = "loop" /\ ShortOfChildren(2)) =>
                (pc'[2] = "recover" /\ r'[2] = StackDeficit)
          /\ (pc[2] = "recover" /\ r[2] = StackDeficit) =>
                (pc'[2] = "returned" /\ retErr'[2] = "index out of range")]_vars

\* A buffer of a scan and a check over it: the check was collected, no
\* node was left for the root, and the decode returned the error.
C18_Witness ==
    /\ pc[2] = "returned"
    /\ retErr[2] = "index out of range"
    /\ Len(plan[2].Checks) = 1
    /\ factory[2].nodeStack = <<>>
    /\ factory[2].off = Len(factory[2].buf)

\* C19: whenever DecodePlanGistToPlan returns a non-nil error, the plan it
\* returns is nil.
C19_NoPlanWithError ==
    (pc[2] = "returned" /\ retErr[2] # "nil") => plan[2].nil

\* The tables among the first n descriptors of the call, in order.
TablesAmong(n) ==
    LET IsTable(d) == ex.descKind[d] = "table"
    IN  SelectSeq(SubSeq(ex.descIDs, 1, n), IsTable)

\* The iteration at hand ends the call with an error before the batcher
\* is given anything: the read fails, or the table has another job id.
FailsEarly ==
    /\ ex.xpc = "loop"
    /\ ex.processed < Len(ex.descIDs)
    /\ LET id == ex.descIDs[ex.processed + 1]
       IN  \/ ex.descKind[id] = "missing"
           \/ ex.descKind[id] = "table" /\ ex.jobID[id] # ex.expectedID

\* C20: UpdateDescriptorJobIDs goes through descIDs in order and hands the
\* batcher the tables, each with job id newID after it had job id
\* expectedID; a descriptor that is no table is left as it is.  A failed
\* read, a table with another job id, or a failed CreateOrUpdateDescriptor
\* ends the call with that error at once, ValidateAndRun not having been
\* called and nothing having been written.  ValidateAndRun is called at
\* most once, as the last step, after every descriptor was processed, and
\* only it writes.
C20_AllOrNothing ==
    /\ [](ex.xpc # "none" =>
            /\ ex.runs <= 1
            /\ ex.batch = TablesAmong(ex.processed)
            /\ (ex.runs = 1 =>
                  /\ ex.xpc = "returned"
                  /\ ex.processed = Len(ex.descIDs)
                  /\ ex.result \in {"nil", "validation failed"}
                  /\ \A k \in 1..Len(ex.descIDs) :
                        ex.descKind[ex.descIDs[k]] = "table" =>
                            ex.jobID[ex.descIDs[k]] = ex.newID)
            /\ (ex.xpc = "returned" /\ ex.runs = 0) => ex.result # "nil")
    /\ [][/\ ex.xpc # "returned"
          /\ FailsEarly =>
                /\ ex'.xpc = "returned"
                /\ ex'.result # "nil"
                /\ ex'.batch = ex.batch
                /\ ex'.jobID = ex.jobID
          /\ ex'.runs = ex.runs => ex'.stored = ex.stored
          /\ ex'.runs # ex.runs =>
                /\ ex.processed = Len(ex.descIDs)
                /\ ex'.xpc = "returned"
                /\ ex'.stored \in {ex.stored, RunBatch(ex)}
          /\ ex'.batch # ex.batch =>
                /\ ex'.batch = Append(ex.batch, ex.descIDs[ex.processed + 1])
                /\ ex.jobID[ex.descIDs[ex.processed + 1]] = ex.expectedID
                /\ ex'.jobID[ex.descIDs[ex.processed + 1]] = ex.newID
          /\ ex'.processed \in {ex.processed, ex.processed + 1}
          /\ \A d \in DescIDs :
                ex.descKind[d] # "table" =>
                    /\ ex'.jobID[d] = ex.jobID[d]
                    /\ ex'.stored[d] = ex.stored[d]]_vars

\* A call on a table, a type and another table ran the batch: both tables
\* were written with the new job id.
C20_Witness ==
    /\ ex.xpc = "returned"
    /\ ex.result = "nil"
    /\ ex.runs = 1
    /\ Len(ex.descIDs) = 3
    /\ ex.descKind[ex.descIDs[2]] = "type"
    /\ Len(ex.batch) = 2
    /\ ex.newID = 8
    /\ ex.stored[ex.batch[1]] = 8
    /\ ex.stored[ex.batch[2]] = 8

====
